---- MODULE Spec2Model ----
(***************************************************************************)
(* Model of EpubArchive (src/src/archive.rs): an opened zip container, the *)
(* two-stage name resolution of get_entry and the rewrite performed by     *)
(* modify_entry.                                                           *)
(*                                                                         *)
(* Names and contents are sequences of byte values.  An index entry is a   *)
(* record [name, method, data, crc, size] where data is the stored         *)
(* (compressed) byte range.  The zip, percent_encoding and core::str       *)
(* operations the source calls are modelled at their call sites.           *)
(*                                                                         *)
(* Assumptions: the opened container is well formed (unique names, sound   *)
(* checksums); the destination handed to modify_entry is an empty sink     *)
(* distinct from the archive's own backing file; zip is the 0.5/0.6 API    *)
(* the source is written against (FileOptions::default(), raw_copy_file),  *)
(* where the name map behind file_names() and by_name() is a HashMap.      *)
(***************************************************************************)
EXTENDS Integers, Sequences, FiniteSets, TLC

VARIABLES zip, files, cursor, op, result, dest, destFinished, destFiles, opened

vars == <<zip, files, cursor, op, result, dest, destFinished, destFiles, opened>>

\* Largest number of entries of the opened container.
MaxEntries == 2

-----------------------------------------------------------------------------
(* Byte strings used as names.                                              *)

\* "a"
NameA == <<97>>
\* "%61": the percent-escaped spelling of "a"
NameEscA == <<37, 54, 49>>
\* "%2561": decodes once to "%61"
NameEscEscA == <<37, 50, 53, 54, 49>>
\* "%C3": decodes to the single byte 0xC3, which is not valid UTF-8
NameEscBad == <<37, 67, 51>>
\* "%zz": a malformed escape
NameMalformed == <<37, 122, 122>>
\* "META-INF/container.xml"
ContainerName == <<77, 69, 84, 65, 45, 73, 78, 70, 47, 99, 111, 110, 116, 97,
                   105, 110, 101, 114, 46, 120, 109, 108>>

\* Names a container may store, and names a caller may ask for.
IndexNames == {NameA, NameEscA, ContainerName}
QueryNames == IndexNames \cup {NameEscEscA, NameEscBad, NameMalformed}

\* The new_content: &str values handed to modify_entry (valid UTF-8 only).
NewContents == {<<>>, <<122, 122>>}

-----------------------------------------------------------------------------
(* Library functions, modelled by what they compute.                        *)

\* Value of an ASCII hex digit, -1 for any other byte.
HexVal(b) ==
    IF b >= 48 /\ b <= 57 THEN b - 48
    ELSE IF b >= 65 /\ b <= 70 THEN b - 55
    ELSE IF b >= 97 /\ b <= 102 THEN b - 87
    ELSE -1

\* percent_encoding::percent_decode: "%XY" with two hex digits becomes one
\* byte, every other byte (a lone or malformed '%' included) is kept.
RECURSIVE percent_decode(_)
percent_decode(s) ==
    IF s = <<>> THEN <<>>
    ELSE IF Head(s) = 37 /\ Len(s) >= 3 /\ HexVal(s[2]) >= 0 /\ HexVal(s[3]) >= 0
         THEN <<HexVal(s[2]) * 16 + HexVal(s[3])>> \o percent_decode(SubSeq(s, 4, Len(s)))
         ELSE <<Head(s)>> \o percent_decode(Tail(s))

IsCont(b) == b >= 128 /\ b <= 191

\* UTF-8 validation as done by decode_utf8 / String::from_utf8.
RECURSIVE Utf8Valid(_)
Utf8Valid(s) ==
    IF s = <<>> THEN TRUE
    ELSE LET b == Head(s) n == Len(s) IN
         IF b < 128 THEN Utf8Valid(Tail(s))
         ELSE IF b >= 194 /\ b <= 223
              THEN n >= 2 /\ IsCont(s[2]) /\ Utf8Valid(SubSeq(s, 3, n))
         ELSE IF b >= 224 /\ b <= 239
              THEN /\ n >= 3 /\ IsCont(s[2]) /\ IsCont(s[3])
                   /\ (b = 224 => s[2] >= 160)
                   /\ (b = 237 => s[2] <= 159)
                   /\ Utf8Valid(SubSeq(s, 4, n))
         ELSE IF b >= 240 /\ b <= 244
              THEN /\ n >= 4 /\ IsCont(s[2]) /\ IsCont(s[3]) /\ IsCont(s[4])
                   /\ (b = 240 => s[2] >= 144)
                   /\ (b = 244 => s[2] <= 143)
                   /\ Utf8Valid(SubSeq(s, 5, n))
         ELSE FALSE

\* Checksum of the uncompressed bytes (position-weighted sum, one byte wide).
RECURSIVE Crc(_)
Crc(s) == IF s = <<>> THEN 0 ELSE (Crc(Tail(s)) * 31 + Head(s) + 1) % 256

\* Deflated data is modelled as run-length pairs <<count, byte, ...>>.
RECURSIVE RunLen(_, _)
RunLen(s, b) == IF s # <<>> /\ Head(s) = b THEN 1 + RunLen(Tail(s), b) ELSE 0

RECURSIVE Deflate(_)
Deflate(s) ==
    IF s = <<>> THEN <<>>
    ELSE LET k == RunLen(s, Head(s)) IN
         <<k, Head(s)>> \o Deflate(SubSeq(s, k + 1, Len(s)))

RECURSIVE Inflate(_)
Inflate(d) ==
    IF Len(d) < 2 THEN <<>>
    ELSE [i \in 1..d[1] |-> d[2]] \o Inflate(SubSeq(d, 3, Len(d)))

Compress(method, s) == IF method = "Deflated" THEN Deflate(s) ELSE s
Decompress(method, d) == IF method = "Deflated" THEN Inflate(d) ELSE d

\* An index entry holding content s under the given method.
MakeEntry(name, method, s) ==
    [name |-> name, method |-> method, data |-> Compress(method, s),
     crc |-> Crc(s), size |-> Len(s)]

Names(z) == [i \in 1..Len(z) |-> z[i].name]
NameSet(z) == {z[i].name : i \in 1..Len(z)}

-----------------------------------------------------------------------------
(* Results of the operations: Result<_, anyhow::Error>, or a panic.         *)

Ok(b) == [status |-> "Ok", err |-> "", bytes |-> b]
Err(e) == [status |-> "Err", err |-> e, bytes |-> <<>>]
Panic(e) == [status |-> "Panic", err |-> e, bytes |-> <<>>]

\* The error kinds the specification calls EntryNotFound:
\* zip::result::ZipError::FileNotFound and Error::msg("File not found").
EntryNotFound == {"FileNotFound", "MsgFileNotFound"}

\* I/O faults an operation may meet.  A fault whose point the call never
\* reaches has no effect, and the actions leave such calls to "none".
ReadFaults == {"none", "lookup", "read"}
WriteFaults == {"none", "exists", "by_index", "start_file", "write_all",
                "raw_copy", "finish"}

-----------------------------------------------------------------------------
(* Opening: from_reader.                                                    *)

\* Containers that can be opened: at least one entry, unique names.  The
\* entries they are built from: a deflated text and a stored byte that is
\* not UTF-8 under "a", a stored text under "%61", a deflated text under
\* "META-INF/container.xml".
Entries ==
    {MakeEntry(NameA, "Deflated", <<120, 120, 121>>),
     MakeEntry(NameA, "Stored", <<255>>),
     MakeEntry(NameEscA, "Stored", <<120>>),
     MakeEntry(ContainerName, "Deflated", <<60, 62>>)}
Archives ==
    UNION {{z \in [1..n -> Entries] :
               \A i, j \in 1..n : i # j => z[i].name # z[j].name}
           : n \in 1..MaxEntries}

\* A listing that contains a name twice.
file_names_twice(z) == {Names(z) \o <<z[1].name>>}

\* zip.file_names(): the keys of the archive's name map, which is a hash
\* map: every distinct name once, in an order the hasher decides.
file_names(z) ==
    LET K == NameSet(z) n == Cardinality(K) IN
    {s \in [1..n -> K] : \A i, j \in 1..n : i # j => s[i] # s[j]}

-----------------------------------------------------------------------------
(* Reading: get_entry, get_entry_as_str, get_container_file.                *)

\* zip.by_name: exact lookup in the name map; 0 stands for FileNotFound.  A
\* name stored twice maps to its last entry.
by_name(z, name) ==
    IF name \in NameSet(z)
    THEN CHOOSE i \in 1..Len(z) :
            z[i].name = name /\ \A j \in 1..Len(z) : z[j].name = name => j <= i
    ELSE 0

\* A reader that is not repositioned before an entry is read.
SeekNone(cur, i) == IF cur = 0 THEN i ELSE cur

\* by_index positions the reader at entry i with an absolute seek, whatever
\* the position cur left by the previous call.
Seek(cur, i) == i

\* zipfile.read_to_end: decompress, then verify the checksum.
read_to_end(file, fault) ==
    IF fault = "read" THEN Err("Io")
    ELSE LET b == Decompress(file.method, file.data) IN
         IF Crc(b) # file.crc \/ Len(b) # file.size
         THEN Err("InvalidChecksum") ELSE Ok(b)

\* by_name found entry i: open it (a lookup fault is any ZipError other
\* than FileNotFound) and read it to the end.
OpenAndRead(z, cur, i, fault) ==
    IF fault = "lookup" THEN [res |-> Err("ZipError"), cursor |-> cur]
    ELSE [res |-> read_to_end(z[Seek(cur, i)], fault), cursor |-> Seek(cur, i)]

\* decode_utf8 that substitutes U+FFFD (bytes EF BF BD) instead of failing.
decode_utf8_lossy(d) == IF Utf8Valid(d) THEN Ok(d) ELSE Ok(<<239, 191, 189>>)

\* percent_decode(..).decode_utf8()
decode_utf8(d) == IF Utf8Valid(d) THEN Ok(d) ELSE Err("Utf8Error")

\* A fallback that does not decode at all.
DecodedNameIdentity(name) == name

\* percent_encoding::percent_decode(name.as_str().as_bytes())
DecodedName(name) == percent_decode(name)

\* get_entry trying the decoded spelling before the verbatim one.
get_entry_decoded_first(z, cur, name, fault) ==
    LET d == decode_utf8(DecodedName(name)) IN
    IF d.status = "Ok" /\ by_name(z, d.bytes) # 0
    THEN OpenAndRead(z, cur, by_name(z, d.bytes), fault)
    ELSE IF by_name(z, name) # 0
    THEN OpenAndRead(z, cur, by_name(z, name), fault)
    ELSE [res |-> Err("FileNotFound"), cursor |-> cur]

get_entry(z, cur, name, fault) ==
    IF by_name(z, name) # 0
    THEN OpenAndRead(z, cur, by_name(z, name), fault)
    ELSE LET d == decode_utf8(DecodedName(name)) IN
         IF d.status # "Ok" THEN [res |-> d, cursor |-> cur]
         ELSE IF by_name(z, d.bytes) = 0
         THEN [res |-> Err("FileNotFound"), cursor |-> cur]
         ELSE OpenAndRead(z, cur, by_name(z, d.bytes), fault)

get_entry_as_str(z, cur, name, fault) ==
    LET r == get_entry(z, cur, name, fault) IN
    IF r.res.status # "Ok" THEN r
    ELSE IF Utf8Valid(r.res.bytes) THEN r
    ELSE [res |-> Err("FromUtf8Error"), cursor |-> r.cursor]

get_container_file(z, cur, fault) == get_entry(z, cur, ContainerName, fault)

-----------------------------------------------------------------------------
(* Rewriting: modify_entry.                                                 *)

\* An existence check that falls back to the percent-decoded spelling.
TargetIndexWithFallback(z, target) ==
    IF by_name(z, target) # 0 THEN by_name(z, target)
    ELSE by_name(z, percent_decode(target))

\* self.zip.by_name(&page_to_modify): exact match only.
TargetIndex(z, target) == by_name(z, target)

\* A loop that walks the index backwards.
LoopOrderReversed(n) == [k \in 1..n |-> n + 1 - k]

\* for i in 0..self.zip.len()
LoopOrder(n) == [k \in 1..n |-> k]

\* A writer that keeps the old bytes of the entry it should replace.
TargetEntryKeepOld(file, new_content) == file

\* start_file(file.name(), FileOptions::default()) and write_all(new_content):
\* a fresh entry under the same name, default (Deflated) compression.
TargetEntry(file, new_content) == MakeEntry(file.name, "Deflated", new_content)

\* A copy that decompresses the entry and encodes it again with the default
\* settings.
raw_copy_reencode(file) ==
    MakeEntry(file.name, "Deflated", Decompress(file.method, file.data))

\* zip_writer.raw_copy_file(file): name, method, checksum, sizes and the
\* compressed byte range are transferred as they are.
raw_copy_file(file) == file

\* The loop of modify_entry from position k of the iteration order, with the
\* entries written so far in acc.  The result carries the state of the
\* writer: "finished" after finish(), "open" when the call ends before it.
RECURSIVE WriteLoop(_, _, _, _, _, _, _)
WriteLoop(z, cur, k, target, new_content, fault, acc) ==
    IF k > Len(z)
    THEN IF fault = "finish"
         THEN [res |-> Panic("finish"), cursor |-> cur, dest |-> acc, writer |-> "open"]
         ELSE [res |-> Ok(<<>>), cursor |-> cur, dest |-> acc, writer |-> "finished"]
    ELSE IF fault = "by_index"
    THEN [res |-> Panic("by_index"), cursor |-> cur, dest |-> acc, writer |-> "open"]
    ELSE LET i == LoopOrder(Len(z))[k]
             pos == Seek(cur, i)
             file == z[pos]
         IN  IF file.name = target
             THEN IF fault \in {"start_file", "write_all"}
                  THEN [res |-> Err("Io"), cursor |-> pos, dest |-> acc, writer |-> "open"]
                  ELSE WriteLoop(z, pos, k + 1, target, new_content, fault,
                                 Append(acc, TargetEntry(file, new_content)))
             ELSE IF fault = "raw_copy"
                  THEN [res |-> Panic("raw_copy"), cursor |-> pos, dest |-> acc, writer |-> "open"]
                  ELSE WriteLoop(z, pos, k + 1, target, new_content, fault,
                                 Append(acc, raw_copy_file(file)))

modify_entry(z, cur, target, new_content, fault) ==
    IF TargetIndex(z, target) = 0
    THEN [res |-> Err("MsgFileNotFound"), cursor |-> cur, dest |-> <<>>, writer |-> "none"]
    ELSE IF fault = "exists"
    THEN [res |-> Err("ZipError"), cursor |-> cur, dest |-> <<>>, writer |-> "none"]
    ELSE WriteLoop(z, Seek(cur, TargetIndex(z, target)), 1, target, new_content, fault, <<>>)

-----------------------------------------------------------------------------
(* The state machine.                                                       *)
(*   zip, files   the opened archive: its index and the public files list  *)
(*   opened       what from_reader built, kept as it was at opening        *)
(*   cursor       position of the archive's reader (entry last sought)     *)
(*   op, result   the call made last and what it returned                  *)
(*   dest, destFinished, destFiles                                         *)
(*                the destination of the modify_entry call made last:     *)
(*                the entries written, whether the central directory was   *)
(*                written, and the files list obtained by opening it       *)

Call(kind, name, content, fault) ==
    [kind |-> kind, name |-> name, content |-> content, fault |-> fault,
     after |-> ""]

NoDest == dest' = <<>> /\ destFinished' = FALSE /\ destFiles' = <<>>

Running == result.status # "Panic"

Init ==
    /\ zip \in Archives
    /\ files \in file_names(zip)
    /\ cursor = 0
    /\ op = Call("from_reader", <<>>, <<>>, "none")
    /\ result = Ok(<<>>)
    /\ dest = <<>>
    /\ destFinished = FALSE
    /\ destFiles = <<>>
    /\ opened = [zip |-> zip, files |-> files]

GetEntry ==
    \E name \in QueryNames, fault \in ReadFaults :
        LET r == get_entry(zip, cursor, name, fault) IN
        /\ Running
        /\ fault = "none" \/ r # get_entry(zip, cursor, name, "none")
        /\ op' = Call("get_entry", name, <<>>, fault)
        /\ result' = r.res
        /\ cursor' = r.cursor
        /\ NoDest
        /\ UNCHANGED <<zip, files, opened>>

GetEntryAsStr ==
    \E name \in QueryNames, fault \in ReadFaults :
        LET r == get_entry_as_str(zip, cursor, name, fault) IN
        /\ Running
        /\ fault = "none" \/ r # get_entry_as_str(zip, cursor, name, "none")
        /\ op' = Call("get_entry_as_str", name, <<>>, fault)
        /\ result' = r.res
        /\ cursor' = r.cursor
        /\ NoDest
        /\ UNCHANGED <<zip, files, opened>>

GetContainerFile ==
    \E fault \in ReadFaults :
        LET r == get_container_file(zip, cursor, fault) IN
        /\ Running
        /\ fault = "none" \/ r # get_container_file(zip, cursor, "none")
        /\ op' = Call("get_container_file", ContainerName, <<>>, fault)
        /\ result' = r.res
        /\ cursor' = r.cursor
        /\ NoDest
        /\ UNCHANGED <<zip, files, opened>>

\* The ZipWriter finalizes itself when dropped before finish(), so a call
\* that ends early leaves the destination with or without a directory.
ModifyEntry ==
    \E target \in QueryNames, new_content \in NewContents, fault \in WriteFaults :
        LET r == modify_entry(zip, cursor, target, new_content, fault) IN
        /\ Running
        /\ fault = "none" \/ r # modify_entry(zip, cursor, target, new_content, "none")
        /\ op' = Call("modify_entry", target, new_content, fault)
        /\ result' = r.res
        /\ cursor' = r.cursor
        /\ dest' = r.dest
        /\ destFinished' \in (IF r.writer = "finished" THEN {TRUE}
                              ELSE IF r.writer = "open" THEN BOOLEAN
                              ELSE {FALSE})
        /\ destFiles' = <<>>
        /\ UNCHANGED <<zip, files, opened>>

\* from_reader on the destination just written; op keeps the arguments of
\* the modify_entry call and, in after, how that call ended.
OpenDest ==
    /\ Running
    /\ op.kind = "modify_entry"
    /\ op' = [op EXCEPT !.kind = "open_dest", !.after = result.status]
    /\ IF destFinished
       THEN /\ destFiles' \in file_names(dest)
            /\ result' = Ok(<<>>)
       ELSE /\ destFiles' = <<>>
            /\ result' = Err("InvalidArchive")
    /\ UNCHANGED <<zip, files, cursor, dest, destFinished, opened>>

Next == GetEntry \/ GetEntryAsStr \/ GetContainerFile \/ ModifyEntry \/ OpenDest

Spec == Init /\ [][Next]_vars

-----------------------------------------------------------------------------
(* Properties.                                                              *)

ModifyOk == op.kind = "modify_entry" /\ result.status = "Ok"
OpenedDest == op.kind = "open_dest" /\ op.after = "Ok" /\ result.status = "Ok"
GetEntryNoFault == op.kind = "get_entry" /\ op.fault = "none"

\* Opening the destination and calling get_entry(name) on it.
ReadBack(name) == get_entry(dest, 0, name, "none").res

\* The entry stored under a name that is in the index of z.
EntryOf(z, name) == z[CHOOSE i \in 1..Len(z) : z[i].name = name]

Range(s) == {s[i] : i \in 1..Len(s)}

\* C1: after a successful modify_entry(dest, X, C) the destination is a
\* finished container and get_entry(X) on it returns exactly the bytes of C.
C1_RoundTrip ==
    ModifyOk => /\ destFinished
                /\ ReadBack(op.name) = Ok(op.content)

C1_Witness ==
    /\ ModifyOk
    /\ Len(zip) >= 2
    /\ op.content = <<122, 122>>
    /\ ReadBack(op.name) = Ok(<<122, 122>>)

\* C2: after a successful modify_entry(dest, X, C) every other source entry Y
\* is in the destination with the same compression method, the same
\* compressed bytes (hence size) and the same checksum, and reads back to the
\* bytes get_entry(Y) returns on the source.
C2_Preservation ==
    ModifyOk =>
        \A y \in NameSet(zip) \ {op.name} :
            /\ y \in NameSet(dest)
            /\ EntryOf(dest, y).method = EntryOf(zip, y).method
            /\ Len(EntryOf(dest, y).data) = Len(EntryOf(zip, y).data)
            /\ EntryOf(dest, y).data = EntryOf(zip, y).data
            /\ EntryOf(dest, y).crc = EntryOf(zip, y).crc
            /\ ReadBack(y) = get_entry(zip, cursor, y, "none").res
            /\ ReadBack(y).status = "Ok"

C2_Witness ==
    /\ ModifyOk
    /\ \E y \in NameSet(zip) \ {op.name} :
          /\ EntryOf(zip, y).method = "Stored"
          /\ EntryOf(dest, y) = EntryOf(zip, y)

\* C3 as stated: the entry names listed for the opened destination equal the
\* entry names listed for the source, order included.
C3_SameListing == OpenedDest => destFiles = files

\* C3 amended: the destination's index holds the source's names in the
\* source's index order, each once; the names listed for the opened
\* destination are the names listed for the source, the same number of
\* them, each once.
C3_SameIndexOrder ==
    /\ (ModifyOk \/ OpenedDest) => Names(dest) = Names(zip)
    /\ OpenedDest => /\ Len(destFiles) = Len(files)
                     /\ Range(destFiles) = Range(files)
                     /\ Cardinality(Range(destFiles)) = Len(destFiles)

C3_Witness ==
    /\ OpenedDest
    /\ Len(zip) >= 2
    /\ Names(dest) = Names(zip)
    /\ destFiles # files

\* C4: without I/O faults get_entry(name) succeeds exactly when name, or the
\* percent-decoded form of name, is a name of the index.
C4_SucceedsIff ==
    GetEntryNoFault =>
        (result.status = "Ok" <=>
            (op.name \in NameSet(zip) \/ percent_decode(op.name) \in NameSet(zip)))

C4_Witness ==
    /\ GetEntryNoFault
    /\ op.name \notin NameSet(zip)
    /\ percent_decode(op.name) \in NameSet(zip)
    /\ result.status = "Ok"

\* C5 as stated: when the verbatim name is absent and the call fails, the
\* error is EntryNotFound, also when the decoded name is not valid UTF-8.
C5_AlwaysEntryNotFound ==
    (GetEntryNoFault /\ op.name \notin NameSet(zip) /\ result.status = "Err")
        => result.err \in EntryNotFound

\* C5 amended: with the verbatim name absent, a decoded name that is valid
\* UTF-8 and absent gives the not-found error, and a decoded name that is
\* not valid UTF-8 gives the UTF-8 decoding error.
C5_ErrorKinds ==
    (GetEntryNoFault /\ op.name \notin NameSet(zip)) =>
        /\ (~Utf8Valid(percent_decode(op.name)) => result = Err("Utf8Error"))
        /\ (Utf8Valid(percent_decode(op.name))
              /\ percent_decode(op.name) \notin NameSet(zip)
                => result = Err("FileNotFound"))

C5_Witness ==
    /\ GetEntryNoFault
    /\ op.name = NameEscBad
    /\ result = Err("Utf8Error")

\* C6: modify_entry on a target that is no name of the index by exact
\* comparison returns EntryNotFound and writes nothing, also when the
\* percent-decoded target is a name of the index.
C6_AbsentTarget ==
    (op.kind = "modify_entry" /\ op.name \notin NameSet(zip)) =>
        /\ result.status = "Err"
        /\ result.err \in EntryNotFound
        /\ dest = <<>>
        /\ ~destFinished

C6_Witness ==
    /\ op.kind = "modify_entry"
    /\ op.name = NameEscA
    /\ NameEscA \notin NameSet(zip)
    /\ NameA \in NameSet(zip)
    /\ result = Err("MsgFileNotFound")

\* C7: a fault met by modify_entry after the existence check is returned to
\* the caller as an error result (an I/O error), never as a panic.
C7_FaultsReturned ==
    (op.kind = "modify_entry" /\ op.fault \notin {"none", "exists"}) =>
        result = Err("Io")

\* C8 as stated: the files list holds the names in the index order.
C8_IndexOrder == files = Names(zip)

\* C8 amended: the files list holds every name of the index exactly once
\* (no duplicates, no omissions); its order is not the index order.
C8_EachNameOnce ==
    /\ Len(files) = Len(zip)
    /\ Range(files) = NameSet(zip)
    /\ Cardinality(Range(files)) = Len(files)

C8_Witness ==
    /\ op.kind = "from_reader"
    /\ Len(zip) >= 2
    /\ files # Names(zip)
    /\ Range(files) = NameSet(zip)

\* C9: after any sequence of calls the files list is the one built at
\* opening and get_entry of every name returns what it returned right after
\* opening, wherever the calls left the reader.
C9_SourceUnchanged ==
    /\ files = opened.files
    /\ \A n \in QueryNames :
          get_entry(zip, cursor, n, "none").res
              = get_entry(opened.zip, 0, n, "none").res

C9_Witness ==
    /\ ModifyOk
    /\ Len(zip) >= 2
    /\ cursor = Len(zip)
    /\ get_entry(zip, cursor, zip[1].name, "none").res.status = "Ok"

\* C10: when the verbatim name is in the index, get_entry returns the bytes
\* of that entry and leaves the reader there, also when the decoded name is
\* the name of another entry.
C10_VerbatimFirst ==
    (GetEntryNoFault /\ op.name \in NameSet(zip)) =>
        /\ result = Ok(Decompress(EntryOf(zip, op.name).method,
                                  EntryOf(zip, op.name).data))
        /\ zip[cursor].name = op.name

C10_Witness ==
    /\ GetEntryNoFault
    /\ op.name = NameEscA
    /\ NameEscA \in NameSet(zip)
    /\ percent_decode(op.name) \in NameSet(zip)
    /\ result = Ok(<<120>>)

====
